---- MODULE Spec2Model ----
(***************************************************************************)
(* Model of the unified PayHere payment server (Food-System-payment):      *)
(* cart orders, food subscriptions, the subscription log, the notification *)
(* endpoint with its four handlers, and the auto-renewal toggle endpoints. *)
(* Every HTTP handler is one action; the store (MongoDB collections) is    *)
(* the state.  Store operations may throw: each action takes the point at  *)
(* which the store fails as an input.                                      *)
(***************************************************************************)
EXTENDS Integers, Sequences, FiniteSets, TLC

VARIABLES
    orders,   \* CartOrder collection, keyed by payhereOrderId (unique index)
    subs,     \* FoodSubscription collection, keyed by payhereOrderId (unique index)
    logs,     \* FoodSubscriptionLog collection: per subscription, entries per action
    now,      \* the wall clock (new Date()), in days since 1 January
    resp,     \* the HTTP response of the last request
    served,   \* the number of requests served so far
    inflight  \* a request that has read the store and not yet written

vars == <<orders, subs, logs, now, resp, served, inflight>>

(***************************************************************************)
(* Bounds of the model.                                                    *)
(***************************************************************************)
\* the server is followed through this many requests
MaxRequests == 3
\* the subscription endpoints alone are followed through this many requests
MaxRenewalRequests == 5

(***************************************************************************)
(* Values.                                                                 *)
(***************************************************************************)
\* JavaScript's undefined (an absent request field, an unset document field)
Undefined == "<undefined>"
\* JavaScript's null
Null == "<null>"

\* !v, for a string-valued field
Falsy(v) == v \in {Undefined, Null, ""}

\* an optional Date field: <<>> when unset or null, <<day>> otherwise
NoDate == <<>>
DateOf(day) == <<day>>

\* process.env.PAYHERE_MERCHANT_ID / PAYHERE_MERCHANT_SECRET, trimmed
payhereConfig == [merchantId |-> "1221", merchantSecret |-> "s3cret"]

CartIds == {"CART_1"}
FoodIds == {"FOOD_1"}
OtherIds == {"ORD_1"}
IdSuffixes == {"1"}
Emails == {"a@x.lk"}
Tokens == {"tok1", "tok2"}
PaymentIds == {"pay1", "pay2"}

\* String.prototype.startsWith, on the order ids of the model
StartsWith(s, prefix) == \E t \in IdSuffixes : s = prefix \o t

\* String.prototype.trim, on the merchant ids of the model
Trim(s) ==
    IF \E t \in {payhereConfig.merchantId, "9999"} : s \in {t, " " \o t, t \o " ", " " \o t \o " "}
    THEN CHOOSE t \in {payhereConfig.merchantId, "9999"} :
             s \in {t, " " \o t, t \o " ", " " \o t \o " "}
    ELSE s

(***************************************************************************)
(* Dates: days since 1 January of a non-leap year, months counted from 0.  *)
(***************************************************************************)
MonthLen(m) ==
    LET k == m % 12
    IN  IF k = 1 THEN 28 ELSE IF k \in {3, 5, 8, 10} THEN 30 ELSE 31

RECURSIVE MonthStart(_)
MonthStart(m) == IF m = 0 THEN 0 ELSE MonthStart(m - 1) + MonthLen(m - 1)

RECURSIVE MonthOf(_, _)
MonthOf(day, m) == IF day < MonthStart(m + 1) THEN m ELSE MonthOf(day, m + 1)

\* Date.prototype.getMonth / getDate
GetMonth(day) == MonthOf(day, 0)
GetDate(day) == day - MonthStart(GetMonth(day)) + 1

\* d.setMonth(d.getMonth() + 1): same day of the next month; a day past the
\* end of that month rolls over into the month after it
AddMonth(day) == MonthStart(GetMonth(day) + 1) + GetDate(day) - 1

\* new Date(s) on the date strings of the model
ParseDate(s) == IF s = "03-05" THEN MonthStart(2) + 4 ELSE 0

\* the instants at which requests arrive
ClockTicks == <<30, 211>>

(***************************************************************************)
(* Hash Authenticator.                                                     *)
(***************************************************************************)
\* crypto.createHash('md5').update(s).digest('hex'): a collision-free digest
\* of its input, in lower-case hex
Md5Hex(s) == [md5 |-> s, upper |-> FALSE]

\* String.prototype.toUpperCase on a hex digest
ToUpperCase(h) == [h EXCEPT !.upper = TRUE]

\* an absent md5sig field
NoSig == [md5 |-> <<>>, upper |-> FALSE]

\* parseFloat on the amount strings of the model, in thousandths
ParseFloat(s) ==
    CASE s = "10.00" -> 10000
      [] s = "10" -> 10000
      [] s = "10.001" -> 10001
      [] s = "2500.00" -> 2500000
      [] s = "2500" -> 2500000
      [] s = "0" -> 0
      [] OTHER -> 0

Digit(d) == <<"0", "1", "2", "3", "4", "5", "6", "7", "8", "9">>[d + 1]

RECURSIVE IntToString(_)
IntToString(n) == IF n < 10 THEN Digit(n) ELSE IntToString(n \div 10) \o Digit(n % 10)

\* Number.prototype.toFixed(2) of a number given in thousandths
ToFixed2(x) ==
    LET cents == (x + 5) \div 10
    IN  IntToString(cents \div 100) \o "." \o Digit((cents \div 10) % 10) \o Digit(cents % 10)

generatePayHereHash(merchantId, orderId, amount, currency, merchantSecret) ==
    LET hashedSecret == ToUpperCase(Md5Hex(merchantSecret))
        amountFormatted == ToFixed2(ParseFloat(amount))
        hashString == <<merchantId \o orderId \o amountFormatted \o currency, hashedSecret>>
    IN  ToUpperCase(Md5Hex(hashString))

\* the digest the verifier recomputes from the notification's fields
LocalHash(data, merchantSecret) ==
    LET hashedSecret == ToUpperCase(Md5Hex(merchantSecret))
        amountFormatted == ToFixed2(ParseFloat(data.payhere_amount))
        hashString == <<data.merchant_id \o data.order_id \o amountFormatted
                          \o data.payhere_currency \o data.status_code, hashedSecret>>
    IN  ToUpperCase(Md5Hex(hashString))

verifyPayHereHash(data, merchantSecret) ==
    LocalHash(data, merchantSecret) = ToUpperCase(data.md5sig)

(***************************************************************************)
(* Documents.                                                              *)
(***************************************************************************)
NoDoc == [exists |-> FALSE]

\* new CartOrder(orderData), lines 421-445
NewCartOrder ==
    [exists |-> TRUE, paymentStatus |-> "pending", orderStatus |-> "pending",
     payherePaymentId |-> Undefined]

LogActions == {"created", "renewed", "cancelled", "failed", "auto_renewal_cancelled",
               "reactivated"}

NoLogs == [a \in LogActions |-> 0]

\* FoodSubscriptionLog.create({subscriptionId: id, action: action, ...})
LogCreate(ls, id, action) == [ls EXCEPT ![id][action] = @ + 1]

\* where a store operation of the request throws
StoreFaults == {"none", "find", "save", "log"}

\* the three collections as one value
Store == [orders |-> orders, subs |-> subs, logs |-> logs]

OrderIds == CartIds \cup FoodIds \cup OtherIds

\* email?.toLowerCase().trim()
NormalizeEmail(e) == IF e = " A@X.LK " THEN "a@x.lk" ELSE e

(***************************************************************************)
(* Notification handlers.  st is the store, n the notification (req.body), *)
(* f the store operation that throws, t the time of the request.  Each     *)
(* handler runs its body in a try block: what the store throws is caught,  *)
(* logged and not rethrown.                                                *)
(***************************************************************************)
\* how a block ends: the store it leaves, and whether it threw
Ok(st) == [st |-> st, threw |-> FALSE]
Throw(st) == [st |-> st, threw |-> TRUE]

\* try { ... } catch (error) { console.error(...) }
Caught(r) == [r EXCEPT !.threw = FALSE]

\* CartSuccessUpdate, but marking as delivered an order that is paid already
CartSuccessUpdateAdvancing(order, n) ==
    [order EXCEPT !.paymentStatus = "completed",
                  !.orderStatus = IF @ = "pending" THEN "confirmed" ELSE "delivered",
                  !.payherePaymentId = n.payment_id]

CartSuccessUpdate(order, n) ==
    [order EXCEPT !.paymentStatus = "completed", !.orderStatus = "confirmed",
                  !.payherePaymentId = n.payment_id]

\* CartFailureUpdate without the assignment to orderStatus
CartFailureUpdatePaymentOnly(order, n) ==
    [order EXCEPT !.paymentStatus = "failed"]

CartFailureUpdate(order, n) ==
    [order EXCEPT !.paymentStatus = "failed", !.orderStatus = "cancelled"]

\* CartNotificationBody, but creating the order a notification names when
\* none exists
CartNotificationBodyRetroactive(st, n, f) ==
    IF f = "find" THEN Throw(st)
    ELSE LET order == IF st.orders[n.order_id].exists THEN st.orders[n.order_id]
                      ELSE NewCartOrder
         IN  IF f = "save" THEN Throw(st)
             ELSE IF n.status_code = "2"
                  THEN Ok([st EXCEPT !.orders[n.order_id] = CartSuccessUpdate(order, n)])
                  ELSE Ok([st EXCEPT !.orders[n.order_id] = CartFailureUpdate(order, n)])

CartNotificationBody(st, n, f) ==
    IF f = "find" THEN Throw(st)
    ELSE LET order == st.orders[n.order_id]
         IN  IF ~order.exists THEN Ok(st)
             ELSE IF f = "save" THEN Throw(st)
             ELSE IF n.status_code = "2"
                  THEN Ok([st EXCEPT !.orders[n.order_id] = CartSuccessUpdate(order, n)])
                  ELSE Ok([st EXCEPT !.orders[n.order_id] = CartFailureUpdate(order, n)])

\* handleCartPaymentNotification without its try block
handleCartPaymentNotificationUncaught(st, n, f) == CartNotificationBody(st, n, f)

handleCartPaymentNotification(st, n, f) == Caught(CartNotificationBody(st, n, f))

\* schema default of maxRenewalAttempts, and the value the initial handler sets
MaxRenewalAttempts == 3
\* 30 * 24 * 60 * 60 * 1000 ms, in days
ThirtyDays == 30

HistoryEntry(status, attempt) == [status |-> status, attempt |-> attempt]

\* the subscription document both creation paths build
NewSubscription(email, token, autoRenew, nextBilling, t) ==
    [exists |-> TRUE, userEmail |-> email, status |-> "active",
     payhereRecurringToken |-> token, autoRenew |-> autoRenew,
     renewalAttempts |-> 0, maxRenewalAttempts |-> MaxRenewalAttempts,
     paymentFailure |-> FALSE, lastPaymentFailureDate |-> NoDate,
     autoRenewalCancelledDate |-> NoDate, autoRenewalCancelledReason |-> Undefined,
     startDate |-> t, endDate |-> AddMonth(t), nextBillingDate |-> nextBilling,
     renewalHistory |-> <<HistoryEntry("success", 1)>>, createdAt |-> t]

\* InitialExistingUpdate without the assignment to status
InitialExistingUpdateKeepingStatus(sub, n, t) ==
    [sub EXCEPT !.payhereRecurringToken = n.recurring_token,
                !.autoRenew = TRUE,
                !.nextBillingDate = IF ~Falsy(n.next_occurrence_date)
                                    THEN DateOf(ParseDate(n.next_occurrence_date))
                                    ELSE DateOf(t + ThirtyDays)]

InitialExistingUpdate(sub, n, t) ==
    [sub EXCEPT !.payhereRecurringToken = n.recurring_token,
                !.autoRenew = TRUE,
                !.status = "active",
                !.nextBillingDate = IF ~Falsy(n.next_occurrence_date)
                                    THEN DateOf(ParseDate(n.next_occurrence_date))
                                    ELSE DateOf(t + ThirtyDays)]

InitialFoodPaymentBody(st, n, f, t) ==
    LET isRecurring == n.custom_2 = "food_monthly_recurring"
        hasToken == isRecurring /\ ~Falsy(n.recurring_token)
        existingSubscription == st.subs[n.order_id]
        endDate == AddMonth(t)
        nextBillingDate == IF hasToken
                           THEN (IF ~Falsy(n.next_occurrence_date)
                                 THEN DateOf(ParseDate(n.next_occurrence_date))
                                 ELSE DateOf(endDate))
                           ELSE NoDate
        subscription == NewSubscription(
                            IF Falsy(n.email) THEN "customer@example.com" ELSE n.email,
                            n.recurring_token, hasToken, nextBillingDate, t)
        saved == [st EXCEPT !.subs[n.order_id] = subscription]
    IN  IF f = "find" THEN Throw(st)
        ELSE IF existingSubscription.exists
             THEN IF ~hasToken THEN Ok(st)
                  ELSE IF f = "save" THEN Throw(st)
                  ELSE Ok([st EXCEPT !.subs[n.order_id] =
                                         InitialExistingUpdate(existingSubscription, n, t)])
        ELSE IF f = "save" THEN Throw(st)
        ELSE IF f = "log" THEN Throw(saved)
        ELSE Ok([saved EXCEPT !.logs = LogCreate(saved.logs, n.order_id, "created")])

handleInitialFoodPaymentWithRecurring(st, n, f, t) ==
    Caught(InitialFoodPaymentBody(st, n, f, t))

\* FoodSubscription.findOne({$or: [{payhereRecurringToken: subscription_id},
\*   {userEmail: email}], autoRenew: true}).sort({createdAt: -1})
RecurringMatches(st, n) ==
    {id \in DOMAIN st.subs :
        /\ st.subs[id].exists
        /\ st.subs[id].autoRenew = TRUE
        /\ \/ st.subs[id].payhereRecurringToken = n.subscription_id
           \/ st.subs[id].userEmail = NormalizeEmail(n.email)}

MostRecent(st, ids) ==
    CHOOSE id \in ids : \A other \in ids : st.subs[other].createdAt <= st.subs[id].createdAt

\* RecurringSuccessUpdate without the reset of renewalAttempts
RecurringSuccessUpdateKeepingAttempts(sub, n) ==
    LET newEndDate == AddMonth(sub.endDate)
    IN  [sub EXCEPT !.status = "active",
                    !.endDate = newEndDate,
                    !.nextBillingDate = IF ~Falsy(n.next_occurrence_date)
                                        THEN DateOf(ParseDate(n.next_occurrence_date))
                                        ELSE DateOf(newEndDate),
                    !.paymentFailure = FALSE,
                    !.renewalHistory = Append(@, HistoryEntry("success", 0 + 1))]

\* RecurringSuccessUpdate without the history entry
RecurringSuccessUpdateWithoutHistory(sub, n) ==
    LET newEndDate == AddMonth(sub.endDate)
    IN  [sub EXCEPT !.status = "active",
                    !.endDate = newEndDate,
                    !.nextBillingDate = IF ~Falsy(n.next_occurrence_date)
                                        THEN DateOf(ParseDate(n.next_occurrence_date))
                                        ELSE DateOf(newEndDate),
                    !.renewalAttempts = 0,
                    !.paymentFailure = FALSE]

RecurringSuccessUpdate(sub, n) ==
    LET newEndDate == AddMonth(sub.endDate)
    IN  [sub EXCEPT !.status = "active",
                    !.endDate = newEndDate,
                    !.nextBillingDate = IF ~Falsy(n.next_occurrence_date)
                                        THEN DateOf(ParseDate(n.next_occurrence_date))
                                        ELSE DateOf(newEndDate),
                    !.renewalAttempts = 0,
                    !.paymentFailure = FALSE,
                    !.renewalHistory = Append(@, HistoryEntry("success", 0 + 1))]

\* RecurringFailureUpdate that never cancels
RecurringFailureUpdateNeverCancelling(sub, n, t) ==
    LET attempts == sub.renewalAttempts + 1
    IN  [sub EXCEPT !.renewalAttempts = attempts,
                    !.paymentFailure = TRUE,
                    !.lastPaymentFailureDate = DateOf(t),
                    !.status = "pending_renewal",
                    !.renewalHistory = Append(@, HistoryEntry("failed", attempts))]

RecurringFailureUpdate(sub, n, t) ==
    LET attempts == sub.renewalAttempts + 1
    IN  [sub EXCEPT !.renewalAttempts = attempts,
                    !.paymentFailure = TRUE,
                    !.lastPaymentFailureDate = DateOf(t),
                    !.status = IF attempts >= sub.maxRenewalAttempts
                               THEN "cancelled" ELSE "pending_renewal",
                    !.renewalHistory = Append(@, HistoryEntry("failed", attempts)),
                    !.autoRenew = IF attempts >= sub.maxRenewalAttempts THEN FALSE ELSE @]

RecurringFoodPaymentBody(st, n, f, t) ==
    IF f = "find" THEN Throw(st)
    ELSE LET found == RecurringMatches(st, n)
         IN  IF found = {} THEN Ok(st)
             ELSE IF f = "save" THEN Throw(st)
             ELSE LET id == MostRecent(st, found)
                      updated == IF n.status_code = "2"
                                 THEN RecurringSuccessUpdate(st.subs[id], n)
                                 ELSE RecurringFailureUpdate(st.subs[id], n, t)
                      saved == [st EXCEPT !.subs[id] = updated]
                      action == IF n.status_code = "2" THEN "renewed" ELSE "failed"
                  IN  IF f = "log" THEN Throw(saved)
                      ELSE Ok([saved EXCEPT !.logs = LogCreate(saved.logs, id, action)])

handleRecurringFoodPayment(st, n, f, t) == Caught(RecurringFoodPaymentBody(st, n, f, t))

\* FailedPaymentUpdate without the failure flag and its date
FailedPaymentUpdateUnflagged(sub, t) ==
    LET attempts == sub.renewalAttempts + 1
        exhausted == attempts >= sub.maxRenewalAttempts
    IN  [sub EXCEPT !.status = IF exhausted THEN "cancelled" ELSE "payment_failed",
                    !.renewalAttempts = attempts,
                    !.renewalHistory = Append(@, HistoryEntry("failed", attempts)),
                    !.autoRenew = IF exhausted THEN FALSE ELSE @]

\* FailedPaymentUpdate leaving autoRenew as it is when the attempts are exhausted
FailedPaymentUpdateKeepingRenewal(sub, t) ==
    LET attempts == sub.renewalAttempts + 1
        exhausted == attempts >= sub.maxRenewalAttempts
    IN  [sub EXCEPT !.status = IF exhausted THEN "cancelled" ELSE "payment_failed",
                    !.paymentFailure = TRUE,
                    !.lastPaymentFailureDate = DateOf(t),
                    !.renewalAttempts = attempts,
                    !.renewalHistory = Append(@, HistoryEntry("failed", attempts))]

\* FailedPaymentUpdate without the cancellation at maxRenewalAttempts
FailedPaymentUpdateNeverCancelling(sub, t) ==
    LET attempts == sub.renewalAttempts + 1
    IN  [sub EXCEPT !.status = "payment_failed",
                    !.paymentFailure = TRUE,
                    !.lastPaymentFailureDate = DateOf(t),
                    !.renewalAttempts = attempts,
                    !.renewalHistory = Append(@, HistoryEntry("failed", attempts))]

\* FailedPaymentUpdate, but with the history replaced by the new entry
FailedPaymentUpdateRewritingHistory(sub, t) ==
    LET attempts == sub.renewalAttempts + 1
        exhausted == attempts >= sub.maxRenewalAttempts
    IN  [sub EXCEPT !.status = IF exhausted THEN "cancelled" ELSE "payment_failed",
                    !.paymentFailure = TRUE,
                    !.lastPaymentFailureDate = DateOf(t),
                    !.renewalAttempts = attempts,
                    !.renewalHistory = <<HistoryEntry("failed", attempts)>>,
                    !.autoRenew = IF exhausted THEN FALSE ELSE @]

FailedPaymentUpdate(sub, t) ==
    LET attempts == sub.renewalAttempts + 1
        exhausted == attempts >= sub.maxRenewalAttempts
    IN  [sub EXCEPT !.status = IF exhausted THEN "cancelled" ELSE "payment_failed",
                    !.paymentFailure = TRUE,
                    !.lastPaymentFailureDate = DateOf(t),
                    !.renewalAttempts = attempts,
                    !.renewalHistory = Append(@, HistoryEntry("failed", attempts)),
                    !.autoRenew = IF exhausted THEN FALSE ELSE @]

FailedFoodPaymentBody(st, n, f, t) ==
    IF f = "find" THEN Throw(st)
    ELSE LET subscription == st.subs[n.order_id]
             saved == [st EXCEPT !.subs[n.order_id] = FailedPaymentUpdate(subscription, t)]
         IN  IF ~subscription.exists THEN Ok(st)
             ELSE IF f = "save" THEN Throw(st)
             ELSE IF f = "log" THEN Throw(saved)
             ELSE Ok([saved EXCEPT !.logs = LogCreate(saved.logs, n.order_id, "failed")])

handleFailedFoodPayment(st, n, f, t) == Caught(FailedFoodPaymentBody(st, n, f, t))

(***************************************************************************)
(* POST /api/payhere-notify                                                *)
(***************************************************************************)
Response(status, body) == [status |-> status, body |-> body]

MissingRequiredField(n) ==
    \/ Falsy(n.merchant_id)
    \/ Falsy(n.order_id)
    \/ Falsy(n.payhere_amount)
    \/ Falsy(n.payhere_currency)
    \/ Falsy(n.status_code)
    \/ n.md5sig = NoSig

MerchantMismatch(n) == Trim(n.merchant_id) # Trim(payhereConfig.merchantId)

IsCartType(n) == n.custom_1 = "cart_order" \/ StartsWith(n.order_id, "CART_")

IsFoodType(n) == n.custom_2 = "food_monthly_recurring" \/ StartsWith(n.order_id, "FOOD_")

\* IsRecurringEvent without the test for a recurring token
IsRecurringEventByTypeOnly(n) == n.event_type = "SUBSCRIPTION_PAYMENT"

IsRecurringEvent(n) == n.event_type = "SUBSCRIPTION_PAYMENT" /\ ~Falsy(n.recurring_token)

\* Route, but handing the failure of a recurring payment to the
\* recurring-payment handler
RouteFailureToRecurring(n) ==
    IF n.status_code = "2"
    THEN IF IsCartType(n) THEN "cart"
         ELSE IF IsFoodType(n)
              THEN (IF IsRecurringEvent(n) THEN "recurring" ELSE "initial")
              ELSE "cart"
    ELSE IF IsFoodType(n)
         THEN (IF IsRecurringEvent(n) THEN "recurring" ELSE "failed")
         ELSE "cart"

\* the handler the router picks, lines 1091-1117
Route(n) ==
    IF n.status_code = "2"
    THEN IF IsCartType(n) THEN "cart"
         ELSE IF IsFoodType(n)
              THEN (IF IsRecurringEvent(n) THEN "recurring" ELSE "initial")
              ELSE "cart"
    ELSE IF IsFoodType(n) THEN "failed" ELSE "cart"

Dispatch(st, n, f, t) ==
    CASE Route(n) = "cart" -> handleCartPaymentNotification(st, n, f)
      [] Route(n) = "initial" -> handleInitialFoodPaymentWithRecurring(st, n, f, t)
      [] Route(n) = "recurring" -> handleRecurringFoodPayment(st, n, f, t)
      [] Route(n) = "failed" -> handleFailedFoodPayment(st, n, f, t)

\* payhereNotify without the signature check of lines 1080-1084
payhereNotifyUnverified(st, n, f, t) ==
    IF MissingRequiredField(n)
    THEN [st |-> st, resp |-> Response(400, "Missing required fields")]
    ELSE IF MerchantMismatch(n)
    THEN [st |-> st, resp |-> Response(400, "Merchant ID mismatch")]
    ELSE LET r == Dispatch(st, n, f, t)
         IN  IF r.threw
             THEN [st |-> r.st, resp |-> Response(500, "Server error")]
             ELSE [st |-> r.st, resp |-> Response(200, "OK")]

\* the endpoint: the store it leaves and the response it sends; what a
\* handler throws reaches the endpoint's own catch block
payhereNotify(st, n, f, t) ==
    IF MissingRequiredField(n)
    THEN [st |-> st, resp |-> Response(400, "Missing required fields")]
    ELSE IF MerchantMismatch(n)
    THEN [st |-> st, resp |-> Response(400, "Merchant ID mismatch")]
    ELSE IF ~verifyPayHereHash(n, payhereConfig.merchantSecret)
    THEN [st |-> st, resp |-> Response(400, "Invalid hash")]
    ELSE LET r == Dispatch(st, n, f, t)
         IN  IF r.threw
             THEN [st |-> r.st, resp |-> Response(500, "Server error")]
             ELSE [st |-> r.st, resp |-> Response(200, "OK")]

(***************************************************************************)
(* POST /api/create-cart-payment                                           *)
(***************************************************************************)
createCartPayment(st, c, orderId, f) ==
    IF ParseFloat(c.amount) <= 0
    THEN [st |-> st, resp |-> Response(400, "Invalid amount")]
    ELSE IF Falsy(c.email)
    THEN [st |-> st, resp |-> Response(400, "Customer information is required")]
    ELSE IF f = "save" \/ st.orders[orderId].exists
    THEN [st |-> st, resp |-> Response(500, "Payment creation failed")]
    ELSE [st |-> [st EXCEPT !.orders[orderId] = NewCartOrder],
          resp |-> Response(200, "One-time cart payment created successfully")]

\* the currency codes a payment request carries
Currencies == {"LKR", "lkr", "USD"}

\* String.prototype.toUpperCase, on the currency codes of the model
CurrencyToUpperCase(c) == IF c = "lkr" THEN "LKR" ELSE c

\* the fields of paymentData that the gateway signs, and its hash
CartPaymentData(c, currency, orderId) ==
    [merchant_id |-> payhereConfig.merchantId,
     order_id |-> orderId,
     currency |-> CurrencyToUpperCase(currency),
     amount |-> ToFixed2(ParseFloat(c.amount)),
     hash |-> generatePayHereHash(payhereConfig.merchantId, orderId, c.amount, currency,
                                  payhereConfig.merchantSecret)]

(***************************************************************************)
(* POST /api/create-food-subscription-payment                              *)
(***************************************************************************)
generateRecurringPayHereHash(merchantId, orderId, amount, currency, merchantSecret) ==
    LET secretHash == ToUpperCase(Md5Hex(merchantSecret))
        cleanAmount == ToFixed2(ParseFloat(amount))
        hashString == <<Trim(merchantId) \o orderId \o cleanAmount
                          \o CurrencyToUpperCase(currency), secretHash>>
    IN  ToUpperCase(Md5Hex(hashString))

\* the subscription's price, fixedAmount
FixedAmount == "2500"

FoodPaymentData(currency, orderId) ==
    [merchant_id |-> payhereConfig.merchantId,
     order_id |-> orderId,
     currency |-> CurrencyToUpperCase(currency),
     amount |-> ToFixed2(ParseFloat(FixedAmount)),
     hash |-> generateRecurringPayHereHash(payhereConfig.merchantId, orderId, FixedAmount,
                                           currency, payhereConfig.merchantSecret)]

(***************************************************************************)
(* POST /api/create-food-subscription-record                               *)
(***************************************************************************)
createFoodSubscriptionRecord(st, r, f, t) ==
    LET id == r.payhereOrderId
        endDate == AddMonth(t)
        nextBillingDate == IF r.enableAutoRenew THEN DateOf(endDate) ELSE NoDate
        subscription == NewSubscription(NormalizeEmail(r.userEmail), r.payhereRecurringToken,
                                        r.enableAutoRenew, nextBillingDate, t)
        saved == [st EXCEPT !.subs[id] = subscription]
        failed == Response(500, "Failed to create subscription record")
    IN  IF Falsy(r.userEmail)
        THEN [st |-> st,
              resp |-> Response(400, "User email, customer name, and address are required")]
        ELSE IF f = "find" THEN [st |-> st, resp |-> failed]
        ELSE IF st.subs[id].exists
        THEN [st |-> st, resp |-> Response(200, "Subscription record already exists")]
        ELSE IF f = "save" THEN [st |-> st, resp |-> failed]
        ELSE IF f = "log" THEN [st |-> saved, resp |-> failed]
        ELSE [st |-> [saved EXCEPT !.logs = LogCreate(saved.logs, id, "created")],
              resp |-> Response(200, "Food subscription record created successfully")]

(***************************************************************************)
(* POST /api/cancel-food-subscription-renewal                              *)
(***************************************************************************)
\* the document a query by _id or, without one, by userEmail selects
Identified(st, q, id) ==
    /\ st.subs[id].exists
    /\ IF ~Falsy(q.subscriptionId)
       THEN id = q.subscriptionId
       ELSE st.subs[id].userEmail = NormalizeEmail(q.userEmail)

CancelMatches(st, q) ==
    {id \in DOMAIN st.subs :
        /\ Identified(st, q, id)
        /\ st.subs[id].status = "active"
        /\ st.subs[id].autoRenew = TRUE}

\* findOne without a sort: the first document in insertion order
First(st, ids) ==
    CHOOSE id \in ids : \A other \in ids : st.subs[id].createdAt <= st.subs[other].createdAt

\* CancelUpdate, but clearing the next billing date as well
CancelUpdateClearingBilling(sub, q, t) ==
    [sub EXCEPT !.autoRenew = FALSE,
                !.autoRenewalCancelledDate = DateOf(t),
                !.autoRenewalCancelledReason = IF Falsy(q.reason)
                                               THEN "User requested cancellation"
                                               ELSE q.reason,
                !.payhereRecurringToken = Undefined,
                !.nextBillingDate = NoDate]

CancelUpdate(sub, q, t) ==
    [sub EXCEPT !.autoRenew = FALSE,
                !.autoRenewalCancelledDate = DateOf(t),
                !.autoRenewalCancelledReason = IF Falsy(q.reason)
                                               THEN "User requested cancellation"
                                               ELSE q.reason,
                !.payhereRecurringToken = Undefined]

\* cancelAutoRenew outside a transaction: a failing log insert leaves the update
cancelAutoRenewWithoutTransaction(st, q, f, t) ==
    LET found == CancelMatches(st, q)
        id == First(st, found)
        updated == [st EXCEPT !.subs[id] = CancelUpdate(st.subs[id], q, t)]
        failed == Response(500, "Server error occurred while cancelling auto-renewal")
    IN  IF Falsy(q.subscriptionId) /\ Falsy(q.userEmail)
        THEN [st |-> st, resp |-> Response(400, "Subscription ID or email is required")]
        ELSE IF f = "find" THEN [st |-> st, resp |-> failed]
        ELSE IF found = {}
        THEN [st |-> st,
              resp |-> Response(200, "No active food subscription with auto-renewal found")]
        ELSE IF f = "save" THEN [st |-> st, resp |-> failed]
        ELSE IF f = "log" THEN [st |-> updated, resp |-> failed]
        ELSE [st |-> [updated EXCEPT !.logs =
                                     LogCreate(updated.logs, id, "auto_renewal_cancelled")],
              resp |-> Response(200, "Auto-renewal cancelled successfully")]

cancelAutoRenew(st, q, f, t) ==
    LET found == CancelMatches(st, q)
        id == First(st, found)
        updated == [st EXCEPT !.subs[id] = CancelUpdate(st.subs[id], q, t)]
        failed == Response(500, "Server error occurred while cancelling auto-renewal")
    IN  IF Falsy(q.subscriptionId) /\ Falsy(q.userEmail)
        THEN [st |-> st, resp |-> Response(400, "Subscription ID or email is required")]
        ELSE IF f = "find" THEN [st |-> st, resp |-> failed]
        ELSE IF found = {}
        THEN [st |-> st,
              resp |-> Response(200, "No active food subscription with auto-renewal found")]
        ELSE IF ~st.subs[id].autoRenew
        THEN [st |-> st, resp |-> Response(200, "Auto-renewal is already disabled")]
        ELSE IF f \in {"save", "log"} THEN [st |-> st, resp |-> failed]
        ELSE [st |-> [updated EXCEPT !.logs =
                                     LogCreate(updated.logs, id, "auto_renewal_cancelled")],
              resp |-> Response(200, "Auto-renewal cancelled successfully")]

(***************************************************************************)
(* POST /api/reactivate-food-subscription-renewal                          *)
(***************************************************************************)
ReactivateMatches(st, q) ==
    {id \in DOMAIN st.subs :
        /\ Identified(st, q, id)
        /\ st.subs[id].status \in {"active", "pending_renewal"}
        /\ st.subs[id].autoRenew = FALSE}

\* the billing date is overwritten whether or not one was set
ReactivateUpdateOverwritingBilling(sub) ==
    [sub EXCEPT !.autoRenew = TRUE,
                !.status = "active",
                !.renewalAttempts = 0,
                !.paymentFailure = FALSE,
                !.nextBillingDate = DateOf(sub.endDate)]

ReactivateUpdate(sub) ==
    [sub EXCEPT !.autoRenew = TRUE,
                !.status = "active",
                !.renewalAttempts = 0,
                !.paymentFailure = FALSE,
                !.nextBillingDate = IF @ = NoDate THEN DateOf(sub.endDate) ELSE @]

\* the expiry of the subscription is not looked at
reactivateAutoRenewIgnoringExpiry(st, q, f, t) ==
    LET found == ReactivateMatches(st, q)
        id == First(st, found)
        saved == [st EXCEPT !.subs[id] = ReactivateUpdate(st.subs[id])]
        failed == Response(500, "Failed to reactivate auto-renewal")
    IN  IF Falsy(q.subscriptionId) /\ Falsy(q.userEmail)
        THEN [st |-> st, resp |-> Response(400, "Subscription ID or email is required")]
        ELSE IF f = "find" THEN [st |-> st, resp |-> failed]
        ELSE IF found = {}
        THEN [st |-> st, resp |-> Response(200, "No eligible subscription found for reactivation")]
        ELSE IF f = "save" THEN [st |-> st, resp |-> failed]
        ELSE IF f = "log" THEN [st |-> saved, resp |-> failed]
        ELSE [st |-> [saved EXCEPT !.logs = LogCreate(saved.logs, id, "reactivated")],
              resp |-> Response(200, "Auto-renewal reactivated successfully")]

reactivateAutoRenew(st, q, f, t) ==
    LET found == ReactivateMatches(st, q)
        id == First(st, found)
        saved == [st EXCEPT !.subs[id] = ReactivateUpdate(st.subs[id])]
        failed == Response(500, "Failed to reactivate auto-renewal")
    IN  IF Falsy(q.subscriptionId) /\ Falsy(q.userEmail)
        THEN [st |-> st, resp |-> Response(400, "Subscription ID or email is required")]
        ELSE IF f = "find" THEN [st |-> st, resp |-> failed]
        ELSE IF found = {}
        THEN [st |-> st, resp |-> Response(200, "No eligible subscription found for reactivation")]
        ELSE IF st.subs[id].endDate <= t
        THEN [st |-> st, resp |-> Response(200, "Subscription has expired")]
        ELSE IF f = "save" THEN [st |-> st, resp |-> failed]
        ELSE IF f = "log" THEN [st |-> saved, resp |-> failed]
        ELSE [st |-> [saved EXCEPT !.logs = LogCreate(saved.logs, id, "reactivated")],
              resp |-> Response(200, "Auto-renewal reactivated successfully")]

(***************************************************************************)
(* Requests.                                                               *)
(***************************************************************************)
\* what the gateway signs: md5sig of a notification with these fields
GatewaySig(n) == LocalHash(n, payhereConfig.merchantSecret)

\* String.prototype.toLowerCase on a hex digest
ToLowerCase(h) == [h EXCEPT !.upper = FALSE]

Shape(order_id, status_code, payment_id, custom_1, custom_2, email, recurring_token, subscription_id, event_type, next_occurrence_date) ==
    [order_id |-> order_id, status_code |-> status_code, payment_id |-> payment_id,
     custom_1 |-> custom_1, custom_2 |-> custom_2, email |-> email,
     recurring_token |-> recurring_token, subscription_id |-> subscription_id,
     event_type |-> event_type, next_occurrence_date |-> next_occurrence_date]

\* the payment-specific fields of a notification about a cart order: the
\* checkout's marker and payment id, or an order id alone
CartShapes ==
    {Shape(o, c, p, "cart_order", Undefined, Undefined, Undefined, Undefined, Undefined,
           Undefined) : o \in CartIds, c \in {"2", "0"}, p \in PaymentIds \cup {Undefined}}
    \cup {Shape(o, c, "pay1", m, Undefined, Undefined, Undefined, Undefined, Undefined,
                Undefined) : o \in OrderIds, c \in {"2", "0"}, m \in {Undefined, "cart_order"}}

\* a cart order id under the subscription marker
CrossShapes ==
    {Shape(o, c, "pay1", m, "food_monthly_recurring", Undefined, Undefined, Undefined,
           Undefined, Undefined) : o \in CartIds, c \in {"2", "0"}, m \in {Undefined, "cart_order"}}

\* the payment-specific fields of a notification about a subscription: a
\* failed payment, a first payment without and with a recurring token, a
\* recurring payment, and a failed recurring payment
FoodShapes ==
    {Shape(o, "0", "pay1", Undefined, m, Undefined, Undefined, Undefined, Undefined,
           Undefined) : o \in FoodIds, m \in {Undefined, "food_monthly_recurring"}}
    \cup {Shape(o, "2", "pay1", Undefined, m, e, Undefined, Undefined, ev, Undefined) :
             o \in FoodIds, m \in {Undefined, "food_monthly_recurring"},
             e \in {Undefined} \cup Emails, ev \in {Undefined, "SUBSCRIPTION_PAYMENT"}}
    \cup {Shape(o, "2", "pay1", Undefined, m, e, "tok1", Undefined, Undefined, d) :
             o \in FoodIds, m \in {Undefined, "food_monthly_recurring"},
             e \in {Undefined} \cup Emails, d \in {Undefined, "03-05"}}
    \cup {Shape(o, "2", "pay1", Undefined, m, e, "tok1", s, "SUBSCRIPTION_PAYMENT", d) :
             o \in FoodIds, m \in {Undefined, "food_monthly_recurring"},
             e \in {Undefined} \cup Emails, s \in Tokens, d \in {Undefined, "03-05"}}
    \cup {Shape(o, "0", "pay1", Undefined, m, Undefined, "tok1", "tok1",
                "SUBSCRIPTION_PAYMENT", Undefined) :
             o \in FoodIds, m \in {Undefined, "food_monthly_recurring"}}

Signed(x, merchant, sig) ==
    [merchant_id |-> merchant, order_id |-> x.order_id, payment_id |-> x.payment_id,
     payhere_amount |-> "10.00", payhere_currency |-> "LKR", status_code |-> x.status_code,
     md5sig |-> sig, custom_1 |-> x.custom_1, custom_2 |-> x.custom_2, email |-> x.email,
     recurring_token |-> x.recurring_token, subscription_id |-> x.subscription_id,
     event_type |-> x.event_type, next_occurrence_date |-> x.next_occurrence_date]

\* a notification as the gateway sends it
Genuine(x) ==
    Signed(x, payhereConfig.merchantId,
           GatewaySig(Signed(x, payhereConfig.merchantId, NoSig)))

GenuineNotifications == {Genuine(x) : x \in CartShapes \cup CrossShapes \cup FoodShapes}

FoodNotifications == {Genuine(x) : x \in FoodShapes}

OtherStatus(code) == IF code = "2" THEN "0" ELSE "2"

\* notifications on which the variants below are built
VariantBases ==
    {n \in GenuineNotifications :
        /\ n.payment_id = "pay1"
        /\ n.email = Undefined
        /\ n.next_occurrence_date = Undefined
        /\ n.event_type = Undefined
        /\ \/ n.custom_1 = "cart_order" /\ n.order_id \in CartIds /\ n.custom_2 = Undefined
           \/ n.recurring_token = "tok1" /\ n.custom_2 = "food_monthly_recurring"}

RequiredFields == {"merchant_id", "order_id", "payhere_amount", "payhere_currency",
                   "status_code"}

\* a genuine notification with one thing changed: a field dropped, another
\* merchant, the signature in lower case, the signature of another status
Variants(n) ==
    {[n EXCEPT ![k] = Undefined] : k \in RequiredFields}
    \cup {[n EXCEPT !.md5sig = NoSig],
          [n EXCEPT !.merchant_id = "9999"],
          [n EXCEPT !.merchant_id = "9999",
                    !.md5sig = GatewaySig([n EXCEPT !.merchant_id = "9999"])],
          [n EXCEPT !.merchant_id = " " \o n.merchant_id \o " ",
                    !.md5sig = GatewaySig([n EXCEPT !.merchant_id = " " \o n.merchant_id \o " "])],
          [n EXCEPT !.md5sig = ToLowerCase(n.md5sig)],
          [n EXCEPT !.status_code = OtherStatus(n.status_code)],
          [n EXCEPT !.md5sig = GatewaySig([n EXCEPT !.payhere_amount = "2500.00"])]}

VariantNotifications == UNION {Variants(n) : n \in VariantBases}

Notifications == GenuineNotifications \cup VariantNotifications

CartRequests == [amount : {"10.00", "0"}, email : Emails \cup {Undefined}]

RecordRequests ==
    [userEmail : Emails \cup {Undefined}, payhereOrderId : FoodIds,
     payhereRecurringToken : {Undefined, "tok1"}, enableAutoRenew : BOOLEAN]

ToggleRequests ==
    [subscriptionId : FoodIds \cup {Undefined}, userEmail : Emails \cup {Undefined}]

CancelRequests ==
    [subscriptionId : FoodIds \cup {Undefined}, userEmail : Emails \cup {Undefined},
     reason : {Undefined, "travelling"}]

(***************************************************************************)
(* Actions: one per request, and the clock.                                *)
(***************************************************************************)
\* no request is between its read and its write
NoRequest == [op |-> "none"]

Reply(out) ==
    /\ served' = served + 1
    /\ resp' = out.resp
    /\ orders' = out.st.orders
    /\ subs' = out.st.subs
    /\ logs' = out.st.logs
    /\ UNCHANGED <<now, inflight>>

PayhereNotify(n, f) == Reply(payhereNotify(Store, n, f, now))

CreateCartPayment(c, orderId, f) == Reply(createCartPayment(Store, c, orderId, f))

CreateFoodSubscriptionRecord(r, f) == Reply(createFoodSubscriptionRecord(Store, r, f, now))

CancelAutoRenew(q, f) == Reply(cancelAutoRenew(Store, q, f, now))

ReactivateAutoRenew(q, f) == Reply(reactivateAutoRenew(Store, q, f, now))

Tick ==
    /\ \E i \in 1..(Len(ClockTicks) - 1) : now = ClockTicks[i] /\ now' = ClockTicks[i + 1]
    /\ UNCHANGED <<orders, subs, logs, resp, served, inflight>>

Init ==
    /\ orders = [id \in OrderIds |-> NoDoc]
    /\ subs = [id \in OrderIds |-> NoDoc]
    /\ logs = [id \in OrderIds |-> NoLogs]
    /\ now = ClockTicks[1]
    /\ resp = [status |-> 0, body |-> "none"]
    /\ served = 0
    /\ inflight = NoRequest


\* a notification arrives, with or without a store fault while it is handled
Notify(ns) ==
    \/ \E n \in ns, f \in StoreFaults : PayhereNotify(n, f)
    \/ \E n \in VariantNotifications : PayhereNotify(n, "none")

Checkout ==
    \E c \in CartRequests, id \in CartIds, f \in {"none", "save"} : CreateCartPayment(c, id, f)

RecordCreation ==
    \E r \in RecordRequests, f \in StoreFaults : CreateFoodSubscriptionRecord(r, f)

Cancel == \E q \in CancelRequests, f \in StoreFaults : CancelAutoRenew(q, f)

Reactivate == \E q \in ToggleRequests, f \in StoreFaults : ReactivateAutoRenew(q, f)

Next ==
    \/ served < MaxRequests /\ Notify(GenuineNotifications)
    \/ served < MaxRequests /\ Checkout
    \/ served < MaxRequests /\ RecordCreation
    \/ served < MaxRequests /\ Cancel
    \/ served < MaxRequests /\ Reactivate
    \/ Tick

Spec == Init /\ [][Next]_vars

\* the subscription endpoints alone: no checkout, notifications about
\* subscriptions only
NextRenewal ==
    \/ served < MaxRenewalRequests /\ Notify(FoodNotifications)
    \/ served < MaxRenewalRequests /\ RecordCreation
    \/ served < MaxRenewalRequests /\ Cancel
    \/ served < MaxRenewalRequests /\ Reactivate
    \/ Tick

SpecRenewal == Init /\ [][NextRenewal]_vars

(***************************************************************************)
(* The recurring-payment handler called on its own, with either outcome:   *)
(* the endpoint calls it for successful payments only.                     *)
(***************************************************************************)
\* the handler is followed through this many calls and record creations
MaxTransitions == 4

\* notifications of a recurring billing event
RecurringEvents ==
    {n \in GenuineNotifications :
        n.event_type = "SUBSCRIPTION_PAYMENT" /\ n.subscription_id \in Tokens}

RecurringFoodPayment(n, f) ==
    LET r == handleRecurringFoodPayment(Store, n, f, now)
    IN  /\ served' = served + 1
        /\ orders' = r.st.orders
        /\ subs' = r.st.subs
        /\ logs' = r.st.logs
        /\ UNCHANGED <<now, resp, inflight>>

NextTransitions ==
    \/ served < MaxTransitions
          /\ \E n \in RecurringEvents, f \in StoreFaults : RecurringFoodPayment(n, f)
    \/ served < MaxTransitions /\ RecordCreation
    \/ Tick

SpecTransitions == Init /\ [][NextTransitions]_vars

(***************************************************************************)
(* Two subscriptions of one customer, and recurring payments.              *)
(***************************************************************************)
\* the two subscriptions are followed through this many requests
MaxLookupRequests == 4

\* records of one customer under two order ids, each with a token
LookupRecordRequests ==
    [userEmail : Emails, payhereOrderId : FoodIds \cup OtherIds,
     payhereRecurringToken : Tokens, enableAutoRenew : {TRUE}]

NextLookup ==
    \/ served < MaxLookupRequests
          /\ \E r \in LookupRecordRequests : CreateFoodSubscriptionRecord(r, "none")
    \/ served < MaxLookupRequests
          /\ \E n \in RecurringEvents, f \in StoreFaults : PayhereNotify(n, f)
    \/ Tick

SpecLookup == Init /\ [][NextLookup]_vars

(***************************************************************************)
(* Requests that overlap.  A handler awaits the store between its read     *)
(* (findOne) and its write (save, updateOne, create), so another request   *)
(* can be served in between.  One request is followed through that gap;    *)
(* the requests served meanwhile run from read to write.  Every            *)
(* interleaving of the reads and writes of two requests has this shape.    *)
(***************************************************************************)
\* overlapping requests are followed through this many requests
MaxOverlapRequests == 4

\* document.save() of a document read earlier: the paths assigned since the
\* read are sent as $set, the history entries pushed since the read as $push
SaveDoc(cur, seen, upd) ==
    [k \in DOMAIN upd |->
        IF k = "renewalHistory"
        THEN cur[k] \o SubSeq(upd[k], Len(seen[k]) + 1, Len(upd[k]))
        ELSE IF upd[k] = seen[k] THEN cur[k] ELSE upd[k]]

\* payhereOrderId without its unique index: every insert is accepted
DuplicateKeyAccepted(cur, seen, out) == FALSE

\* save() of a new subscription under a payhereOrderId that has been taken
\* since the existence check: the unique index rejects the insert
DuplicateKey(cur, seen, out) ==
    \E id \in OrderIds :
        ~seen.subs[id].exists /\ out.subs[id].exists /\ cur.subs[id].exists

\* an update inside a transaction of a document that was written after the
\* transaction's first read: the store rejects it and updateOne throws
WriteConflict(cur, seen, out) ==
    \E id \in OrderIds : out.subs[id] # seen.subs[id] /\ cur.subs[id] # seen.subs[id]

SaveCollection(cur, seen, out) ==
    [id \in OrderIds |->
        IF out[id] = seen[id] THEN cur[id]
        ELSE IF seen[id].exists /\ cur[id].exists THEN SaveDoc(cur[id], seen[id], out[id])
        ELSE out[id]]

\* the writes of a request that read the store as `seen` and computed `out`
\* from it, applied to the store as it is now; the save comes first and the
\* log entry after it
Land(cur, seen, out) ==
    IF DuplicateKey(cur, seen, out) THEN cur
    ELSE [orders |-> SaveCollection(cur.orders, seen.orders, out.orders),
          subs |-> SaveCollection(cur.subs, seen.subs, out.subs),
          logs |-> [id \in OrderIds |-> [a \in LogActions |->
                      cur.logs[id][a] + (out.logs[id][a] - seen.logs[id][a])]]]

\* the notification handlers catch what their writes throw
payhereNotifyWrite(cur, seen, n, t) ==
    LET r == payhereNotify(seen, n, "none", t)
    IN  [st |-> Land(cur, seen, r.st), resp |-> r.resp]

createFoodSubscriptionRecordWrite(cur, seen, r, t) ==
    LET out == createFoodSubscriptionRecord(seen, r, "none", t)
    IN  IF DuplicateKey(cur, seen, out.st)
        THEN [st |-> cur, resp |-> Response(500, "Failed to create subscription record")]
        ELSE [st |-> Land(cur, seen, out.st), resp |-> out.resp]

\* updateOne by _id alone, outside any transaction
cancelAutoRenewWriteUnisolated(cur, seen, q, t) ==
    LET out == cancelAutoRenew(seen, q, "none", t)
    IN  [st |-> Land(cur, seen, out.st), resp |-> out.resp]

\* updateOne(...).session(session), the log entry and commitTransaction
cancelAutoRenewWrite(cur, seen, q, t) ==
    LET out == cancelAutoRenew(seen, q, "none", t)
    IN  IF WriteConflict(cur, seen, out.st)
        THEN [st |-> cur,
              resp |-> Response(500, "Server error occurred while cancelling auto-renewal")]
        ELSE [st |-> Land(cur, seen, out.st), resp |-> out.resp]

\* notifications about the subscription that overlap
OverlapNotifications ==
    {n \in FoodNotifications :
        /\ n.custom_2 = "food_monthly_recurring"
        /\ n.next_occurrence_date = Undefined
        /\ n.subscription_id # "tok2"}

\* the request has read the store
Begin(op, req) ==
    /\ inflight.op = "none"
    /\ inflight' = [op |-> op, req |-> req, seen |-> Store, at |-> now]
    /\ served' = served + 1
    /\ UNCHANGED <<orders, subs, logs, now, resp>>

\* the request writes and answers
Finish(out) ==
    /\ inflight' = NoRequest
    /\ resp' = out.resp
    /\ orders' = out.st.orders
    /\ subs' = out.st.subs
    /\ logs' = out.st.logs
    /\ UNCHANGED <<now, served>>

PayhereNotifyRead == \E n \in OverlapNotifications : Begin("notify", n)

PayhereNotifyWrite ==
    /\ inflight.op = "notify"
    /\ Finish(payhereNotifyWrite(Store, inflight.seen, inflight.req, inflight.at))

CreateFoodSubscriptionRecordRead == \E r \in RecordRequests : Begin("record", r)

CreateFoodSubscriptionRecordWrite ==
    /\ inflight.op = "record"
    /\ Finish(createFoodSubscriptionRecordWrite(Store, inflight.seen, inflight.req, inflight.at))

CancelAutoRenewRead == \E q \in CancelRequests : Begin("cancel", q)

CancelAutoRenewWrite ==
    /\ inflight.op = "cancel"
    /\ Finish(cancelAutoRenewWrite(Store, inflight.seen, inflight.req, inflight.at))

NextOverlap ==
    \/ served < MaxOverlapRequests /\ PayhereNotifyRead
    \/ PayhereNotifyWrite
    \/ served < MaxOverlapRequests /\ CreateFoodSubscriptionRecordRead
    \/ CreateFoodSubscriptionRecordWrite
    \/ served < MaxOverlapRequests /\ CancelAutoRenewRead
    \/ CancelAutoRenewWrite
    \/ served < MaxOverlapRequests /\ \E n \in OverlapNotifications : PayhereNotify(n, "none")
    \/ served < MaxOverlapRequests /\ \E r \in RecordRequests : CreateFoodSubscriptionRecord(r, "none")
    \/ served < MaxOverlapRequests /\ \E q \in CancelRequests : CancelAutoRenew(q, "none")
    \/ Tick

SpecOverlap == Init /\ [][NextOverlap]_vars

(***************************************************************************)
(* Properties.  A notification's fields are strings, as the gateway's      *)
(* form-encoded POST delivers them.  A property of the shape "the endpoint *)
(* answers every such request in this way" is stated of every reachable    *)
(* state: it applies the endpoint to the state's store and looks at the    *)
(* response and the store the endpoint leaves.                             *)
(***************************************************************************)
\* the notifications the endpoint must refuse: another merchant's, or
\* signed with a digest other than the one recomputed from their fields
UnauthenticNotifications ==
    {n \in Notifications :
        MerchantMismatch(n) \/ ~verifyPayHereHash(n, payhereConfig.merchantSecret)}

\* the notifications that pass the required-field, merchant and signature checks
AuthenticNotifications ==
    {n \in Notifications :
        /\ ~MissingRequiredField(n)
        /\ ~MerchantMismatch(n)
        /\ verifyPayHereHash(n, payhereConfig.merchantSecret)}

\* C1: a notification whose merchant id differs from the configured one
\* after trimming, or whose md5sig is not the recomputed digest, is answered
\* with 400 and leaves orders, subscriptions and logs as they were.
C1_UnauthenticRejected ==
    \A n \in UnauthenticNotifications, f \in StoreFaults :
        LET out == payhereNotify(Store, n, f, now)
        IN  out.resp.status = 400 /\ out.st = Store

\* a notification with a wrong signature has been refused while an order
\* and a subscription exist
C1_Witness ==
    /\ resp = Response(400, "Invalid hash")
    /\ \E id \in CartIds : orders[id].exists
    /\ \E id \in FoodIds : subs[id].exists

\* the seven fields the notification must carry
SevenRequiredFields ==
    {"merchant_id", "order_id", "payment_id", "payhere_amount", "payhere_currency",
     "status_code"}

LacksRequiredField(n) ==
    (\E k \in SevenRequiredFields : n[k] = Undefined) \/ n.md5sig = NoSig

\* C2: a notification that lacks any one of merchant_id, order_id,
\* payment_id, payhere_amount, payhere_currency, status_code, md5sig is
\* answered with 400 and changes nothing.
C2_MissingFieldRejected ==
    \A n \in {m \in Notifications : LacksRequiredField(m)}, f \in StoreFaults :
        LET out == payhereNotify(Store, n, f, now)
        IN  out.resp.status = 400 /\ out.st = Store

\* C3: a notification that passes the three checks is answered 200 'OK',
\* whether its handler finds nothing, or the store throws on the find, the
\* save or the log insert.
C3_AuthenticAcknowledged ==
    \A n \in AuthenticNotifications, f \in StoreFaults :
        payhereNotify(Store, n, f, now).resp = Response(200, "OK")

\* an authentic notification has been acknowledged although nothing matched
\* it: no order and no subscription exists
C3_Witness ==
    /\ resp = Response(200, "OK")
    /\ \A id \in OrderIds : ~orders[id].exists /\ ~subs[id].exists

\* C4: an order that has left (pending, pending) keeps its paymentStatus
\* and its orderStatus in every later step.
C4_FinalizedOnce ==
    [][\A id \in OrderIds :
          orders[id].exists /\ orders[id].paymentStatus # "pending"
              => /\ orders'[id].paymentStatus = orders[id].paymentStatus
                 /\ orders'[id].orderStatus = orders[id].orderStatus]_vars

StatusPairs ==
    {<<"pending", "pending">>, <<"completed", "confirmed">>, <<"failed", "cancelled">>}

\* C5: every cart order's (paymentStatus, orderStatus) is one of
\* (pending, pending), (completed, confirmed), (failed, cancelled).
C5_StatusesTogether ==
    \A id \in OrderIds :
        orders[id].exists
            => <<orders[id].paymentStatus, orders[id].orderStatus>> \in StatusPairs

\* a notification of a failed payment has been applied to an order
C5_Witness ==
    \E id \in CartIds :
        /\ orders[id].exists
        /\ orders[id].paymentStatus = "failed"
        /\ orders[id].orderStatus = "cancelled"

\* C6: for an existing cart order, an authentic notification with status
\* code '2' leaves it completed and confirmed with the notification's
\* payment id; one with any other status code leaves it failed and cancelled.
C6_CartOutcome ==
    \A n \in AuthenticNotifications :
        orders[n.order_id].exists
            => LET after == payhereNotify(Store, n, "none", now).st.orders[n.order_id]
               IN  IF n.status_code = "2"
                   THEN /\ after.paymentStatus = "completed"
                        /\ after.orderStatus = "confirmed"
                        /\ after.payherePaymentId = n.payment_id
                   ELSE /\ after.paymentStatus = "failed"
                        /\ after.orderStatus = "cancelled"

\* the successful notifications the router hands to the cart handler
SuccessfulCartNotifications ==
    {n \in AuthenticNotifications : n.status_code = "2" /\ Route(n) = "cart"}

\* C7: a successful cart notification delivered again, after a delivery
\* that was applied, leaves every order as the first delivery left it.
C7_CartIdempotent ==
    \A n \in SuccessfulCartNotifications, f \in StoreFaults :
        LET once == payhereNotify(Store, n, "none", now).st
            twice == payhereNotify(once, n, f, now).st
        IN  twice.orders = once.orders

\* a successful notification has been applied to an order, as the last of
\* three requests
C7_Witness ==
    /\ served = 3
    /\ resp = Response(200, "OK")
    /\ \E id \in CartIds :
          /\ orders[id].exists
          /\ orders[id].paymentStatus = "completed"
          /\ orders[id].payherePaymentId = "pay1"

\* the fields of a subscription that a repeated delivery must not change
Transition(sub) ==
    IF sub.exists
    THEN <<sub.endDate, sub.renewalAttempts, sub.status, sub.renewalHistory>>
    ELSE <<>>

\* the notifications the router hands to a subscription handler
SubscriptionNotifications == {n \in AuthenticNotifications : Route(n) # "cart"}

\* C8: a subscription notification delivered twice leaves endDate,
\* renewalAttempts, status and renewalHistory of every subscription as one
\* delivery leaves them.
C8_SubscriptionIdempotent ==
    \A n \in SubscriptionNotifications :
        LET once == payhereNotify(Store, n, "none", now).st
            twice == payhereNotify(once, n, "none", now).st
        IN  \A id \in OrderIds : Transition(twice.subs[id]) = Transition(once.subs[id])

\* C9: a subscription that is active or pending_renewal has
\* renewalAttempts < maxRenewalAttempts.
C9_AttemptsBelowMax ==
    \A id \in OrderIds :
        subs[id].exists /\ subs[id].status \in {"active", "pending_renewal"}
            => subs[id].renewalAttempts < subs[id].maxRenewalAttempts

\* C10: a subscription with autoRenew = true has a recurring token stored.
C10_AutoRenewHasToken ==
    \A id \in OrderIds :
        subs[id].exists /\ subs[id].autoRenew => ~Falsy(subs[id].payhereRecurringToken)

(***************************************************************************)
(* Renewal State Machine.                                                  *)
(***************************************************************************)
\* the store after the endpoint has handled n without a store fault
Deliver(st, n) == payhereNotify(st, n, "none", now).st

\* the number of entries of a renewal history with the given status
CountStatus(history, status) ==
    Cardinality({i \in DOMAIN history : history[i].status = status})

\* the failure notifications about subscription id that carry its token
RecurringFailures(st, id) ==
    {n \in AuthenticNotifications :
        /\ n.status_code # "2"
        /\ n.order_id = id
        /\ n.recurring_token = st.subs[id].payhereRecurringToken}

\* C11: three consecutive failure notifications carrying the recurring token
\* of an active auto-renew subscription with renewalAttempts = 0 and
\* maxRenewalAttempts = 3 leave it cancelled, with autoRenew = false and
\* three more 'failed' history entries (three in all on a subscription
\* that had none).
C11_ThreeFailuresCancel ==
    \A id \in OrderIds :
        /\ subs[id].exists
        /\ subs[id].status = "active"
        /\ subs[id].autoRenew
        /\ subs[id].renewalAttempts = 0
        /\ subs[id].maxRenewalAttempts = 3
        => \A n1, n2, n3 \in RecurringFailures(Store, id) :
              LET after == Deliver(Deliver(Deliver(Store, n1), n2), n3).subs[id]
              IN  /\ after.status = "cancelled"
                  /\ after.autoRenew = FALSE
                  /\ CountStatus(after.renewalHistory, "failed")
                        = CountStatus(subs[id].renewalHistory, "failed") + 3

\* a subscription created with a token has been cancelled by three failure
\* notifications: its history is the creation entry and three failures
C11_Witness ==
    /\ served = 4
    /\ resp = Response(200, "OK")
    /\ \E id \in FoodIds :
          /\ subs[id].exists
          /\ subs[id].status = "cancelled"
          /\ subs[id].autoRenew = FALSE
          /\ subs[id].payhereRecurringToken = "tok1"
          /\ subs[id].renewalAttempts = 3
          /\ Len(subs[id].renewalHistory) = 4
          /\ CountStatus(subs[id].renewalHistory, "failed") = 3

\* the store after k calls of the recurring-payment handler with n
RECURSIVE RecurringTimes(_, _, _)
RecurringTimes(st, n, k) ==
    IF k = 0 THEN st
    ELSE RecurringTimes(handleRecurringFoodPayment(st, n, "none", now).st, n, k - 1)

\* the failed recurring payments whose subscription_id is the token of the
\* auto-renew subscription id
FailedRecurringEvents(id) ==
    {n \in RecurringEvents :
        /\ n.status_code # "2"
        /\ subs[id].exists
        /\ subs[id].autoRenew
        /\ subs[id].payhereRecurringToken = n.subscription_id}

\* C12: the recurring-failure transition adds one to renewalAttempts, one
\* 'failed' history entry and one 'failed' log entry; applied k times from
\* renewalAttempts = 0 it leaves status pending_renewal and autoRenew as it
\* was while k < maxRenewalAttempts, and status cancelled with autoRenew
\* false when k = maxRenewalAttempts.
C12_RecurringFailure ==
    \A id \in OrderIds : \A n \in FailedRecurringEvents(id) :
        LET before == subs[id]
            once == RecurringTimes(Store, n, 1)
        IN  /\ once.subs[id].renewalAttempts = before.renewalAttempts + 1
            /\ once.subs[id].renewalHistory
                  = Append(before.renewalHistory,
                           [status |-> "failed", attempt |-> before.renewalAttempts + 1])
            /\ once.logs[id]["failed"] = logs[id]["failed"] + 1
            /\ \A a \in LogActions \ {"failed"} : once.logs[id][a] = logs[id][a]
            /\ before.renewalAttempts = 0
                  => \A k \in 1..before.maxRenewalAttempts :
                        LET after == RecurringTimes(Store, n, k).subs[id]
                        IN  IF k < before.maxRenewalAttempts
                            THEN /\ after.status = "pending_renewal"
                                 /\ after.autoRenew = before.autoRenew
                            ELSE /\ after.status = "cancelled"
                                 /\ after.autoRenew = FALSE

\* the handler has applied two failures to a subscription: it is pending
\* renewal, still on auto-renew, with two 'failed' entries and log entries
C12_Witness ==
    \E id \in FoodIds :
        /\ subs[id].exists
        /\ subs[id].status = "pending_renewal"
        /\ subs[id].autoRenew
        /\ subs[id].renewalAttempts = 2
        /\ CountStatus(subs[id].renewalHistory, "failed") = 2
        /\ logs[id]["failed"] = 2

\* day plus k calendar months: the same day of the month k months later, or
\* that month's last day when it is shorter
PlusMonths(day, k) ==
    LET m == GetMonth(day) + k
        d == GetDate(day)
    IN  MonthStart(m) + (IF d < MonthLen(m) THEN d ELSE MonthLen(m)) - 1

\* the successful recurring payments the endpoint applies to subscription id
RecurringSuccesses(id) ==
    {n \in AuthenticNotifications :
        /\ Route(n) = "recurring"
        /\ subs[id].exists
        /\ subs[id].autoRenew
        /\ subs[id].payhereRecurringToken = n.subscription_id}

\* C13: a recurring success moves endDate to the previous endDate plus one
\* calendar month, and two of them move it by two months, whatever the day
\* of the month.
C13_EndDatePlusOneMonth ==
    \A id \in OrderIds : \A n \in RecurringSuccesses(id) :
        /\ Deliver(Store, n).subs[id].endDate = PlusMonths(subs[id].endDate, 1)
        /\ Deliver(Deliver(Store, n), n).subs[id].endDate = PlusMonths(subs[id].endDate, 2)

\* the successful recurring payments the lookup matches to subscription id,
\* by token or by email
MatchedSuccesses(id) ==
    {n \in AuthenticNotifications :
        /\ Route(n) = "recurring"
        /\ subs[id].exists
        /\ subs[id].autoRenew
        /\ \/ subs[id].payhereRecurringToken = n.subscription_id
           \/ subs[id].userEmail = n.email}

\* C14: a recurring success leaves the matched subscription active with
\* renewalAttempts = 0 and paymentFailure = false, nextBillingDate the given
\* next_occurrence_date or else the new endDate, one more 'success' history
\* entry, one more 'renewed' log entry, and autoRenew and the token as they
\* were.
C14_RecurringSuccess ==
    \A id \in OrderIds : \A n \in MatchedSuccesses(id) :
        LET st == Deliver(Store, n)
            after == st.subs[id]
            history == after.renewalHistory
        IN  /\ after.status = "active"
            /\ after.renewalAttempts = 0
            /\ after.paymentFailure = FALSE
            /\ after.nextBillingDate = IF n.next_occurrence_date # Undefined
                                       THEN <<ParseDate(n.next_occurrence_date)>>
                                       ELSE <<after.endDate>>
            /\ Len(history) = Len(subs[id].renewalHistory) + 1
            /\ SubSeq(history, 1, Len(history) - 1) = subs[id].renewalHistory
            /\ history[Len(history)].status = "success"
            /\ st.logs[id]["renewed"] = logs[id]["renewed"] + 1
            /\ \A a \in LogActions \ {"renewed"} : st.logs[id][a] = logs[id][a]
            /\ after.autoRenew = subs[id].autoRenew
            /\ after.payhereRecurringToken = subs[id].payhereRecurringToken

\* a recurring success has renewed a subscription after a failed payment
C14_Witness ==
    /\ resp = Response(200, "OK")
    /\ \E id \in FoodIds :
          /\ subs[id].exists
          /\ subs[id].status = "active"
          /\ subs[id].renewalAttempts = 0
          /\ subs[id].paymentFailure = FALSE
          /\ Len(subs[id].renewalHistory) = 3
          /\ subs[id].renewalHistory[2].status = "failed"
          /\ subs[id].renewalHistory[3].status = "success"
          /\ logs[id]["renewed"] = 1

\* the first successful payments of a subscription whose order id is new
InitialSuccesses ==
    {n \in AuthenticNotifications : Route(n) = "initial" /\ ~subs[n.order_id].exists}

\* C15: an initial success notification with a recurring token, for an order
\* id without a subscription, creates one subscription: active, autoRenew
\* true, endDate one month after startDate, one history entry (success,
\* attempt 1), one log entry ('created'); nextBillingDate is set exactly when
\* the notification carries a recurring token.
C15_InitialCreates ==
    \A n \in InitialSuccesses :
        LET st == Deliver(Store, n)
            id == n.order_id
            created == st.subs[id]
        IN  /\ created.exists
            /\ \A other \in OrderIds \ {id} : st.subs[other] = subs[other]
            /\ (created.nextBillingDate # NoDate) = (n.recurring_token # Undefined)
            /\ n.recurring_token # Undefined
                  => /\ created.status = "active"
                     /\ created.autoRenew = TRUE
                     /\ created.endDate = PlusMonths(created.startDate, 1)
                     /\ created.renewalHistory = <<[status |-> "success", attempt |-> 1]>>
                     /\ st.logs[id] = [NoLogs EXCEPT !["created"] = 1]

\* C16: when an auto-renew subscription holds the token of a recurring
\* payment and a more recently created auto-renew subscription matches it by
\* email only, the payment is applied to the subscription with the token
\* and the other one is left as it was.
C16_TokenMatchPreferred ==
    \A n \in {m \in RecurringEvents : m.status_code = "2"} :
        \A byToken, byEmail \in OrderIds :
            /\ subs[byToken].exists /\ subs[byEmail].exists
            /\ subs[byToken].autoRenew /\ subs[byEmail].autoRenew
            /\ subs[byToken].payhereRecurringToken = n.subscription_id
            /\ subs[byEmail].payhereRecurringToken # n.subscription_id
            /\ subs[byEmail].userEmail = n.email
            /\ subs[byEmail].createdAt > subs[byToken].createdAt
            => LET st == Deliver(Store, n)
               IN  /\ st.subs[byEmail] = subs[byEmail]
                   /\ st.subs[byToken].endDate # subs[byToken].endDate

\* the failed payments of a FOOD order id whose subscription exists
FailedPayments ==
    {n \in AuthenticNotifications :
        /\ n.status_code # "2"
        /\ n.order_id \in FoodIds
        /\ subs[n.order_id].exists}

\* C17: a failure notification for a FOOD order id whose subscription
\* exists adds one to renewalAttempts, sets paymentFailure and
\* lastPaymentFailureDate, appends one 'failed' history entry, and sets
\* status payment_failed while the new renewalAttempts is below
\* maxRenewalAttempts, else status cancelled and autoRenew false.
C17_FailedPayment ==
    \A n \in FailedPayments :
        LET before == subs[n.order_id]
            after == Deliver(Store, n).subs[n.order_id]
            attempts == before.renewalAttempts + 1
        IN  /\ after.renewalAttempts = attempts
            /\ after.paymentFailure = TRUE
            /\ after.lastPaymentFailureDate = <<now>>
            /\ after.renewalHistory
                  = Append(before.renewalHistory, [status |-> "failed", attempt |-> attempts])
            /\ IF attempts < before.maxRenewalAttempts
               THEN after.status = "payment_failed"
               ELSE after.status = "cancelled" /\ after.autoRenew = FALSE

\* two failure notifications have been applied to a subscription
C17_Witness ==
    /\ resp = Response(200, "OK")
    /\ \E id \in FoodIds :
          /\ subs[id].exists
          /\ subs[id].status = "payment_failed"
          /\ subs[id].renewalAttempts = 2
          /\ subs[id].paymentFailure
          /\ subs[id].lastPaymentFailureDate # NoDate
          /\ CountStatus(subs[id].renewalHistory, "failed") = 2

\* C18: a subscription cancelled because renewalAttempts reached
\* maxRenewalAttempts stays cancelled, with autoRenew false, in every later
\* step.
C18_ExhaustedIsTerminal ==
    [][\A id \in OrderIds :
          /\ subs[id].exists
          /\ subs[id].status = "cancelled"
          /\ subs[id].renewalAttempts >= subs[id].maxRenewalAttempts
          => subs'[id].status = "cancelled" /\ subs'[id].autoRenew = FALSE]_vars

(***************************************************************************)
(* Auto-renewal toggle.                                                    *)
(***************************************************************************)
\* the subscription a toggle request names: by id, or without one by email
Names(q, id) ==
    /\ subs[id].exists
    /\ IF q.subscriptionId # Undefined
       THEN id = q.subscriptionId
       ELSE q.userEmail # Undefined /\ subs[id].userEmail = q.userEmail

\* what a successful cancellation leaves of subscription id
Cancelled(st, q, id) ==
    /\ st.subs[id].autoRenew = FALSE
    /\ st.subs[id].autoRenewalCancelledDate = <<now>>
    /\ st.subs[id].autoRenewalCancelledReason
          = (IF q.reason = Undefined THEN "User requested cancellation" ELSE q.reason)
    /\ st.subs[id].payhereRecurringToken = Undefined
    /\ st.logs[id]["auto_renewal_cancelled"] = logs[id]["auto_renewal_cancelled"] + 1
    /\ \A a \in LogActions \ {"auto_renewal_cancelled"} : st.logs[id][a] = logs[id][a]

\* C19: cancelAutoRenew on a subscription that is active with autoRenew
\* true sets autoRenew false, records the cancellation date and reason,
\* removes the token and appends one 'auto_renewal_cancelled' log entry;
\* when the store fails, none of this is visible.
C19_CancelAtomic ==
    \A q \in CancelRequests, id \in OrderIds :
        Names(q, id) /\ subs[id].status = "active" /\ subs[id].autoRenew
            => /\ Cancelled(cancelAutoRenew(Store, q, "none", now).st, q, id)
               /\ \A f \in StoreFaults :
                     LET st == cancelAutoRenew(Store, q, f, now).st
                     IN  Cancelled(st, q, id) \/ st = Store

\* a cancellation with a reason has been committed
C19_Witness ==
    /\ resp = Response(200, "Auto-renewal cancelled successfully")
    /\ \E id \in FoodIds :
          /\ subs[id].exists
          /\ subs[id].status = "active"
          /\ subs[id].autoRenew = FALSE
          /\ subs[id].payhereRecurringToken = Undefined
          /\ subs[id].autoRenewalCancelledDate # NoDate
          /\ subs[id].autoRenewalCancelledReason = "travelling"
          /\ logs[id]["auto_renewal_cancelled"] = 1

\* C20: cancelAutoRenew on an existing subscription whose autoRenew is
\* false answers 'Auto-renewal is already disabled' and changes nothing.
C20_AlreadyDisabled ==
    \A q \in CancelRequests, id \in OrderIds :
        Names(q, id) /\ subs[id].autoRenew = FALSE
            => LET out == cancelAutoRenew(Store, q, "none", now)
               IN  /\ out.resp = Response(200, "Auto-renewal is already disabled")
                   /\ out.st = Store

(***************************************************************************)
(* Overlapping requests.                                                   *)
(***************************************************************************)
\* the subscription a cancellation in flight has read, if it read one
CancelRead == First(inflight.seen, CancelMatches(inflight.seen, inflight.req))

\* the answers of the cancellation endpoint that report a failure
CancelFailures ==
    {Response(500, "Server error occurred while cancelling auto-renewal"),
     Response(200, "Failed to cancel auto-renewal. Please try again or contact support.")}

\* C21: when the subscription a cancellation has read is modified by another
\* request before the cancellation writes, the cancellation leaves that
\* modification in place, appends no log entry, and answers with a failure
\* that is not the 'not found' answer
C21_CancelDetectsRace ==
    [][(/\ inflight.op = "cancel"
        /\ inflight'.op = "none"
        /\ CancelMatches(inflight.seen, inflight.req) # {}
        /\ subs[CancelRead] # inflight.seen.subs[CancelRead])
       => (/\ subs' = subs
           /\ logs' = logs
           /\ resp' \in CancelFailures
           /\ resp'.body # "No active food subscription with auto-renewal found")]_vars

\* a failed payment was recorded between a cancellation's read and its
\* write, and the cancellation was refused
C21_Witness ==
    /\ inflight.op = "none"
    /\ resp = Response(500, "Server error occurred while cancelling auto-renewal")
    /\ \E id \in FoodIds :
          /\ subs[id].exists
          /\ subs[id].autoRenew = TRUE
          /\ subs[id].renewalAttempts = 1
          /\ logs[id]["auto_renewal_cancelled"] = 0

(***************************************************************************)
(* Reactivation of auto-renewal.                                           *)
(***************************************************************************)
\* the answers of the reactivation endpoint that report a failure
ReactivateFailures ==
    {Response(500, "Failed to reactivate auto-renewal"),
     Response(200, "No eligible subscription found for reactivation"),
     Response(200, "Subscription has expired")}

\* C22: a reactivation request that names a subscription whose endDate is
\* at or before the current time is answered with a failure and changes
\* neither the subscription nor the log
C22_ExpiredNotReactivated ==
    \A q \in ToggleRequests, f \in StoreFaults, id \in OrderIds :
        (Identified(Store, q, id) /\ subs[id].endDate <= now)
        => LET out == reactivateAutoRenew(Store, q, f, now)
           IN  /\ out.resp \in ReactivateFailures
               /\ out.st = Store

\* a reactivation was refused because the subscription has expired
C22_Witness ==
    /\ resp = Response(200, "Subscription has expired")
    /\ \E id \in FoodIds :
          /\ subs[id].exists
          /\ subs[id].endDate <= now
          /\ subs[id].autoRenew = FALSE
          /\ logs[id]["reactivated"] = 0

\* the subscriptions the reactivation endpoint accepts
Reactivable(sub, t) ==
    /\ sub.exists
    /\ sub.status \in {"active", "pending_renewal"}
    /\ sub.autoRenew = FALSE
    /\ sub.endDate > t

\* the fields a reactivation sets
Reactivated(old, new) ==
    /\ new.autoRenew = TRUE
    /\ new.status = "active"
    /\ new.renewalAttempts = 0
    /\ new.paymentFailure = FALSE
    /\ new.nextBillingDate = IF old.nextBillingDate = NoDate THEN DateOf(old.endDate)
                             ELSE old.nextBillingDate
    /\ [new EXCEPT !.autoRenew = old.autoRenew, !.status = old.status,
                   !.renewalAttempts = old.renewalAttempts,
                   !.paymentFailure = old.paymentFailure,
                   !.nextBillingDate = old.nextBillingDate] = old

\* C23: a reactivation succeeds only on a subscription that is active or
\* pending renewal, has autoRenew false and has not expired; it then sets
\* autoRenew, status, renewalAttempts and paymentFailure, fills in a missing
\* nextBillingDate from endDate, and appends one 'reactivated' log entry; a
\* request that names any other subscription changes nothing
C23_Reactivation ==
    \A q \in ToggleRequests, f \in StoreFaults :
        LET out == reactivateAutoRenew(Store, q, f, now)
            success == out.resp = Response(200, "Auto-renewal reactivated successfully")
        IN  /\ success =>
                \E id \in OrderIds :
                    /\ Identified(Store, q, id)
                    /\ Reactivable(subs[id], now)
                    /\ Reactivated(subs[id], out.st.subs[id])
                    /\ out.st.subs = [subs EXCEPT ![id] = out.st.subs[id]]
                    /\ out.st.logs = LogCreate(logs, id, "reactivated")
                    /\ out.st.orders = orders
            /\ (\A id \in OrderIds : Identified(Store, q, id) => ~Reactivable(subs[id], now))
                => out.st = Store
            /\ (f = "none" /\ \E id \in OrderIds :
                                 Identified(Store, q, id) /\ Reactivable(subs[id], now))
                => success

\* a reactivation succeeded on a subscription without a billing date
C23_Witness ==
    /\ resp = Response(200, "Auto-renewal reactivated successfully")
    /\ \E id \in FoodIds :
          /\ subs[id].exists
          /\ subs[id].autoRenew = TRUE
          /\ subs[id].nextBillingDate = DateOf(subs[id].endDate)
          /\ subs[id].payhereRecurringToken = Undefined
          /\ logs[id]["reactivated"] = 1

\* the notifications that, delivered to the store a notification in flight
\* has read, give the store as it is now
Overtaking ==
    {n \in OverlapNotifications :
        payhereNotify(inflight.seen, n, "none", inflight.at).st = Store}

\* the store after the notifications a and b, handled one after the other
Serial(st, a, b, t) ==
    payhereNotify(payhereNotify(st, a, "none", t).st, b, "none", t).st

\* C24: when a notification was handled between the read and the write of
\* another notification about the same subscription, the store after both
\* is the store that handling the two one after the other, in one order or
\* the other, gives
C24_NotificationsSerialize ==
    [][(/\ inflight.op = "notify"
        /\ inflight'.op = "none"
        /\ now = inflight.at
        /\ inflight.seen.subs[inflight.req.order_id].exists
        /\ Store # inflight.seen
        /\ Overtaking # {})
       => \E n \in Overtaking :
             [orders |-> orders', subs |-> subs', logs |-> logs']
                 \in {Serial(inflight.seen, n, inflight.req, now),
                      Serial(inflight.seen, inflight.req, n, now)}]_vars

\* C25: a gateway order id has at most one subscription (the collection
\* is keyed by payhereOrderId, whose index is unique), and that
\* subscription has one 'created' log entry and one history entry from its
\* creation (the first; every other entry has a 'renewed' or 'failed' log
\* entry), however notifications and record creations with that order id
\* overlap
C25_OneSubscriptionPerOrder ==
    \A id \in OrderIds :
        IF subs[id].exists
        THEN /\ logs[id]["created"] = 1
             /\ Len(subs[id].renewalHistory) >= 1
             /\ subs[id].renewalHistory[1] = HistoryEntry("success", 1)
             /\ Len(subs[id].renewalHistory) = 1 + logs[id]["renewed"] + logs[id]["failed"]
        ELSE logs[id]["created"] = 0

\* a record creation passed the existence check, the subscription was
\* created by another request meanwhile, and the insert was rejected
C25_Witness ==
    /\ inflight.op = "none"
    /\ resp = Response(500, "Failed to create subscription record")
    /\ \E id \in FoodIds :
          /\ subs[id].exists
          /\ logs[id]["created"] = 1
          /\ Len(subs[id].renewalHistory) = 1

(***************************************************************************)
(* The subscription log.                                                   *)
(***************************************************************************)
\* the number of log entries of a subscription
LogTotal(ls, id) ==
    ls[id]["created"] + ls[id]["renewed"] + ls[id]["cancelled"] + ls[id]["failed"]
    + ls[id]["auto_renewal_cancelled"] + ls[id]["reactivated"]

\* the persisted lifecycle fields of a subscription
Lifecycle(sub) ==
    IF sub.exists
    THEN <<sub.status, sub.autoRenew, sub.payhereRecurringToken, sub.renewalAttempts,
           sub.endDate, sub.nextBillingDate>>
    ELSE <<>>

\* C26: a step that changes the lifecycle fields of a subscription (status,
\* autoRenew, recurring token, renewalAttempts, endDate, nextBillingDate)
\* appends exactly one log entry for that subscription; so does the first
\* payment applied to a subscription that exists already
C26_ChangeIsLogged ==
    [][\A id \in OrderIds :
          Lifecycle(subs'[id]) # Lifecycle(subs[id])
          => LogTotal(logs', id) = LogTotal(logs, id) + 1]_vars

(***************************************************************************)
(* Routing of notifications.                                               *)
(***************************************************************************)
\* nothing in the store matches the notification: no order has the order id
\* of a notification handed to the cart handler, no subscription with
\* auto-renewal has the token or the email of a recurring payment, no
\* subscription has the order id of a failed subscription payment
Unmatched(st, n) ==
    \/ Route(n) = "cart" /\ ~st.orders[n.order_id].exists
    \/ Route(n) = "recurring" /\ RecurringMatches(st, n) = {}
    \/ Route(n) = "failed" /\ ~st.subs[n.order_id].exists

\* C27: an authentic notification that matches no order (cart) or no
\* subscription (recurring or failed subscription payment) leaves orders,
\* subscriptions and logs as they were and is answered 200
C27_UnmatchedIgnored ==
    \A n \in AuthenticNotifications, f \in StoreFaults :
        Unmatched(Store, n)
            => LET out == payhereNotify(Store, n, f, now)
               IN  out.st = Store /\ out.resp = Response(200, "OK")

\* one notification has been acknowledged and the store is still empty
C27_Witness ==
    /\ served = 1
    /\ resp = Response(200, "OK")
    /\ orders = [id \in OrderIds |-> NoDoc]
    /\ subs = [id \in OrderIds |-> NoDoc]
    /\ logs = [id \in OrderIds |-> NoLogs]

\* the store after the Order update path
ThroughCart(n) == handleCartPaymentNotification(Store, n, "none").st

\* C28: an authentic notification with the cart marker (custom_1 =
\* 'cart_order' or an order id starting with 'CART_') is applied through
\* the Order update path whatever its status code and whatever subscription
\* marker it also carries, and so is a successful notification of no
\* recognised type
C28_CartPrecedence ==
    \A n \in AuthenticNotifications :
        (IsCartType(n) \/ (n.status_code = "2" /\ ~IsFoodType(n)))
            => payhereNotify(Store, n, "none", now).st = ThroughCart(n)

\* authentic notifications of subscription type: the subscription marker
\* or a 'FOOD_' order id, and no cart marker
SubscriptionTypeNotifications ==
    {n \in AuthenticNotifications : IsFoodType(n) /\ ~IsCartType(n)}

\* C29: a successful notification of subscription type is applied through
\* the recurring-payment transition when its event_type is
\* 'SUBSCRIPTION_PAYMENT' and it carries a recurring_token, and through the
\* initial-payment transition otherwise; a failed one is applied through
\* the failed-payment transition, which looks the subscription up by order id
C29_SubscriptionRouting ==
    \A n \in SubscriptionTypeNotifications :
        LET after == payhereNotify(Store, n, "none", now).st
        IN  IF n.status_code = "2"
            THEN IF n.event_type = "SUBSCRIPTION_PAYMENT" /\ n.recurring_token \in Tokens
                 THEN after = handleRecurringFoodPayment(Store, n, "none", now).st
                 ELSE after = handleInitialFoodPaymentWithRecurring(Store, n, "none", now).st
            ELSE after = handleFailedFoodPayment(Store, n, "none", now).st

\* a recurring payment has renewed a subscription, and a failed payment has
\* been recorded on it
C29_Witness ==
    /\ resp = Response(200, "OK")
    /\ \E id \in FoodIds :
          /\ subs[id].exists
          /\ logs[id]["renewed"] = 1
          /\ logs[id]["failed"] = 1

(***************************************************************************)
(* The signature and the fields it covers.                                 *)
(***************************************************************************)
\* amounts put in the place of the signed one: another amount, the signed
\* amount in another format, and one that differs in the third decimal
TamperedAmounts == {"2500.00", "0", "10", "10.001"}

\* what replacing one signed field of a notification can give
Tampered(n) ==
    {[n EXCEPT !.payhere_amount = a] : a \in TamperedAmounts \ {n.payhere_amount}}
    \cup {[n EXCEPT !.order_id = o] : o \in OrderIds \ {n.order_id}}
    \cup {[n EXCEPT !.status_code = OtherStatus(n.status_code)]}

\* C30: when the amount, the order id or the status code of a notification
\* that verifies is replaced by another value, md5sig and the other fields
\* kept, verifyPayHereHash returns false, and the endpoint, whatever the
\* store holds, refuses the notification
C30_TamperDetected ==
    \A n \in AuthenticNotifications : \A m \in Tampered(n) :
        /\ ~verifyPayHereHash(m, payhereConfig.merchantSecret)
        /\ payhereNotify(Store, m, "none", now).resp = Response(400, "Invalid hash")

(***************************************************************************)
(* The first payment of a subscription that exists already.                *)
(***************************************************************************)
\* first-payment notifications for an order id that has a subscription
InitialOnExisting ==
    {n \in AuthenticNotifications : Route(n) = "initial" /\ subs[n.order_id].exists}

\* C31: the first-payment transition on an order id whose subscription
\* exists attaches the notification's recurring token when it carries one,
\* sets autoRenew true, status active and nextBillingDate to the occurrence
\* date given or to now + 30 days, creates no subscription and appends no
\* history entry; without a recurring token the subscription is unchanged
C31_InitialOnExisting ==
    \A n \in InitialOnExisting :
        LET st == Deliver(Store, n)
            old == subs[n.order_id]
            new == st.subs[n.order_id]
        IN  /\ \A other \in OrderIds \ {n.order_id} : st.subs[other] = subs[other]
            /\ new.renewalHistory = old.renewalHistory
            /\ IF n.recurring_token # Undefined
               THEN new = [old EXCEPT
                              !.payhereRecurringToken = n.recurring_token,
                              !.autoRenew = TRUE,
                              !.status = "active",
                              !.nextBillingDate =
                                  IF n.next_occurrence_date # Undefined
                                  THEN DateOf(ParseDate(n.next_occurrence_date))
                                  ELSE DateOf(now + ThirtyDays)]
               ELSE new = old

(***************************************************************************)
(* Invariants of a subscription.                                           *)
(***************************************************************************)
IsPrefix(a, b) == Len(a) <= Len(b) /\ SubSeq(b, 1, Len(a)) = a

\* C32: in every step, a subscription that exists keeps existing and its
\* renewalHistory before the step is a prefix of its renewalHistory after it
C32_HistoryAppendOnly ==
    [][\A id \in OrderIds :
          subs[id].exists
              => /\ subs'[id].exists
                 /\ IsPrefix(subs[id].renewalHistory, subs'[id].renewalHistory)]_vars

\* two failed payments have been appended to the entry of the creation
C32_Witness ==
    \E id \in FoodIds :
        /\ subs[id].exists
        /\ Len(subs[id].renewalHistory) = 3
        /\ subs[id].renewalHistory[1].status = "success"
        /\ subs[id].renewalHistory[2] = HistoryEntry("failed", 1)
        /\ subs[id].renewalHistory[3] = HistoryEntry("failed", 2)

RenewalCancelled(sub) ==
    sub.exists /\ sub.autoRenew = FALSE /\ sub.autoRenewalCancelledDate # NoDate

\* C34: once a cancellation of auto-renewal is committed, no step that
\* leaves autoRenew false writes a later endDate, another nextBillingDate or
\* a 'success' history entry to the subscription; this includes the save of
\* a recurring-payment handler that read the subscription before the
\* cancellation was committed
C34_NoRenewalAfterCancel ==
    [][\A id \in OrderIds :
          RenewalCancelled(subs[id]) /\ RenewalCancelled(subs'[id])
              => /\ subs'[id].endDate = subs[id].endDate
                 /\ subs'[id].nextBillingDate = subs[id].nextBillingDate
                 /\ CountStatus(subs'[id].renewalHistory, "success")
                       = CountStatus(subs[id].renewalHistory, "success")]_vars

\* C35: the status of a subscription is active, payment_failed or cancelled
C35_ThreeStatuses ==
    \A id \in OrderIds :
        subs[id].exists => subs[id].status \in {"active", "payment_failed", "cancelled"}

\* the failure of a payment has been recorded on a subscription that is
\* renewing: it is payment_failed, and not pending renewal
C35_Witness ==
    /\ resp = Response(200, "OK")
    /\ \E id \in FoodIds :
          /\ subs[id].exists
          /\ subs[id].status = "payment_failed"
          /\ subs[id].autoRenew = TRUE
          /\ subs[id].payhereRecurringToken = "tok1"
          /\ subs[id].renewalAttempts = 1
          /\ logs[id]["failed"] = 1

C37_FlagIffAttempts ==
    \A id \in OrderIds :
        subs[id].exists => (subs[id].paymentFailure <=> subs[id].renewalAttempts > 0)

(***************************************************************************)
(* What a cancellation of auto-renewal leaves alone.                       *)
(***************************************************************************)
\* the fields a cancellation of auto-renewal does not write
CancelFrame(sub) ==
    [sub EXCEPT !.autoRenew = FALSE, !.payhereRecurringToken = Undefined,
                !.autoRenewalCancelledDate = NoDate,
                !.autoRenewalCancelledReason = Undefined]

\* C38: a cancellation of auto-renewal that succeeds changes, of one
\* subscription, only autoRenew, the recurring token and the cancellation
\* date and reason: status, startDate, endDate, nextBillingDate,
\* renewalAttempts, paymentFailure and renewalHistory stay, and so do every
\* other subscription and every order
C38_CancelFrame ==
    \A q \in CancelRequests :
        LET out == cancelAutoRenew(Store, q, "none", now)
        IN  out.resp = Response(200, "Auto-renewal cancelled successfully")
            => /\ out.st.orders = orders
               /\ \E id \in OrderIds :
                     /\ subs[id].exists
                     /\ \A other \in OrderIds \ {id} : out.st.subs[other] = subs[other]
                     /\ out.st.subs[id].autoRenew = FALSE
                     /\ CancelFrame(out.st.subs[id]) = CancelFrame(subs[id])
                     /\ out.st.subs[id].status = subs[id].status
                     /\ out.st.subs[id].nextBillingDate = subs[id].nextBillingDate
                     /\ out.st.subs[id].renewalHistory = subs[id].renewalHistory

\* auto-renewal has been cancelled while a cart order is pending: the
\* subscription keeps its status, its dates and its history
C38_Witness ==
    /\ resp = Response(200, "Auto-renewal cancelled successfully")
    /\ \E o \in CartIds : orders[o].exists /\ orders[o].paymentStatus = "pending"
    /\ \E id \in FoodIds :
          /\ subs[id].exists
          /\ subs[id].autoRenew = FALSE
          /\ subs[id].status = "active"
          /\ subs[id].nextBillingDate = DateOf(subs[id].endDate)
          /\ Len(subs[id].renewalHistory) = 1

(***************************************************************************)
(* The signature of a payment request.                                     *)
(***************************************************************************)
\* the hash of the signed fields of a payment request, as the gateway
\* recomputes it from the request
HashOfFields(p) ==
    generatePayHereHash(p.merchant_id, p.order_id, p.amount, p.currency,
                        payhereConfig.merchantSecret)

\* C39: for every cart payment that is accepted, whatever the case of its
\* currency code, the hash returned is generatePayHereHash of the
\* merchant_id, order_id, amount and currency returned with it; the same
\* holds of the hash of a subscription payment
C39_HashOfReturnedFields ==
    \A currency \in Currencies :
        /\ \A c \in CartRequests, id \in CartIds :
              createCartPayment(Store, c, id, "none").resp.status = 200
                  => LET paymentData == CartPaymentData(c, currency, id)
                     IN  paymentData.hash = HashOfFields(paymentData)
        /\ \A id \in FoodIds :
              ~subs[id].exists
                  => LET paymentData == FoodPaymentData(currency, id)
                     IN  paymentData.hash = HashOfFields(paymentData)

(***************************************************************************)
(* The log and the renewal history.                                        *)
(***************************************************************************)
\* C40: when no store operation fails, a subscription has as many 'failed'
\* log entries as 'failed' history entries, and as many 'created' and
\* 'renewed' log entries together as 'success' history entries
C40_LogMatchesHistory ==
    \A id \in OrderIds :
        subs[id].exists
            => /\ logs[id]["failed"] = CountStatus(subs[id].renewalHistory, "failed")
               /\ logs[id]["created"] + logs[id]["renewed"]
                     = CountStatus(subs[id].renewalHistory, "success")

\* a subscription has been created, has failed a payment and has been
\* renewed twice
C40_Witness ==
    \E id \in FoodIds :
        /\ subs[id].exists
        /\ logs[id]["created"] = 1
        /\ logs[id]["failed"] = 1
        /\ logs[id]["renewed"] = 2
        /\ Len(subs[id].renewalHistory) = 4

====
